---------------------------- MODULE Spec2Model ----------------------------
(***************************************************************************)
(* Model of the model-conversion utility scripts under tools/:             *)
(*                                                                         *)
(*   onnx_to_tflite.py         the full converter (two backends, stage 2)  *)
(*   onnx_to_tflite_simple.py  the simplified converter                    *)
(*   download_optical_flow.py  the optical-flow acquirers                  *)
(*   download_film.py          the FILM acquirer and the graph inspector   *)
(*   simplify_model.py         the simplifier's diagnostics                *)
(*                                                                         *)
(* Every script is a single-threaded program; each one has its own         *)
(* specification below.  A call into a third-party library is one action   *)
(* whose outcome is drawn from Outcome: it completes ("ok"), raises an     *)
(* instance of Exception ("exc"), or raises a BaseException that is not    *)
(* an Exception, such as KeyboardInterrupt or SystemExit ("base").         *)
(* Removing a directory tree the program itself created is taken to work   *)
(* (POSIX file-system semantics, no I/O faults).                           *)
(***************************************************************************)
EXTENDS Integers, Sequences, FiniteSets, TLC

Outcome == {"ok", "exc", "base"}

\* State of onnx_to_tflite.py: main() and its two stages
VARIABLES
    cpc,          \* position of main()
    onnxIsFile,   \* os.path.isfile(onnx_path)
    smArg,        \* --saved-model-dir was given (args.saved_model_dir truthy)
    \* what is at the saved_model_dir path: "absent", "dir", "file"
    root,
    out_dir,       \* entries of the saved_model_dir directory: name -> kind
    sub,          \* contents of its saved_model and __tmp_saved_model__ subdirs
    tmpExists,    \* the TemporaryDirectory exists on disk
    tmpCreated,   \* a TemporaryDirectory was created by this run
    madeDirs,     \* os.makedirs(saved_model_dir) was called by this run
    keep_saved_model,  \* keep_saved_model as main() sets it
    aTried,       \* backend A (onnx2tf) was attempted
    aDone,        \* the backend A branch returned (line 64)
    aRaised,      \* what backend A's branch raised: "none", "exc", "base"
    bTried,       \* backend B (onnx-tf) was attempted
    \* what _convert_onnx_to_saved_model raised: "none", "exc", "base"
    s1Raised,
    tfTried,      \* _convert_saved_model_to_tflite was called
    \* what _convert_saved_model_to_tflite raised: "none", "exc", "base"
    s2Raised,
    outWritten,   \* the output .tflite file was written completely
    pending,      \* what the try block decided: "none", "ret0", "ret2", "raise"
    exit,         \* "running", "returned", "raised"
    ret           \* the code main() returned (when exit = "returned")

convVars == <<cpc, onnxIsFile, smArg, root, out_dir, sub, tmpExists, tmpCreated,
              madeDirs, keep_saved_model, aTried, aDone, aRaised, bTried,
              s1Raised, tfTried,
              s2Raised, outWritten, pending, exit, ret>>

\* State of onnx_to_tflite_simple.py: main()
VARIABLES
    spc,          \* position of main()
    sArgc,        \* len(sys.argv)
    sIsFile,      \* os.path.isfile(onnx_path)
    sTmpExists,   \* the mkdtemp directory exists on disk
    sTmpCreated,  \* mkdtemp was called by this run
    sDir,         \* entries of the mkdtemp directory: name -> kind
    sSub,         \* contents of its saved_model subdirectory
    \* the stage that failed: "none", "import", "convert", "missing", "tflite"
    sStage,
    sRaised,      \* what the failed stage raised: "none", "exc", "base"
    sOutWritten,  \* the output .tflite file was written completely
    sPending,     \* what the try block decided: "none", "ret0", "ret2", "raise"
    sExit,        \* "running", "returned", "raised"
    sRet          \* the code main() returned (when sExit = "returned")

simpleVars == <<spc, sArgc, sIsFile, sTmpExists, sTmpCreated, sDir, sSub,
                sStage,
                sRaised, sOutWritten, sPending, sExit, sRet>>

\* State of the acquirers and their caller
VARIABLES
    \* position inside the acquirer being called ("idle" between calls)
    dpc,
    \* the function being called: "raft", "film", "skeleton", "none"
    dFn,
    dCalls,       \* calls made so far
    \* optical_flow_models/raft_small.pth: "none", "old", "new", "partial"
    dest,
    destAtStart,  \* dest when the current call started
    ofDir,        \* what is at optical_flow_models: "absent", "dir", "file"
    filmDir,      \* film_models/film_tfhub exists
    skelOut,      \* app/src/main/assets/optical_flow_fp16.tflite exists
    dImport,      \* outcome of the call's imports: "none", "ok", "exc", "base"
    dRaised,      \* what a step of the call raised: "none", "exc", "base"
    dRetrieved,   \* urllib.request.urlretrieve was called by this call
    dHubCalled,   \* hub.load was called by this call
    dResult,      \* what the call returned: "none" (not yet), "None", "path"
    dExit,        \* "running", "returned", "raised"
    dInspected    \* the download_film.py entry point ran inspect_saved_model

acqVars == <<dpc, dFn, dCalls, dest, destAtStart, ofDir, filmDir, skelOut,
             dImport,
             dRaised, dRetrieved, dHubCalled, dResult, dExit, dInspected>>

\* State of inspect_saved_model
VARIABLES
    ipc,          \* position inside inspect_saved_model
    iDisk,        \* the artifact on disk: the op of each node of its graph
    iGraph,       \* graph_def.node once loaded: the op of each node
    iIndex,       \* nodes tallied so far by the loop
    opOrder,      \* the keys of op_types in insertion order
    op_types,      \* op_types: operator type -> count
    iListing,     \* the operator types printed, in the order printed
    problematic,  \* the list of operators reported as risky
    iResult,      \* "none" (not yet), "None", "tally"
    iRaised,      \* what the body of the try block raised: "none", "exc", "base"
    iExit         \* "running", "returned", "raised"

inspVars == <<ipc, iDisk, iGraph, iIndex, opOrder, op_types, iListing,
              problematic,
              iResult, iRaised, iExit>>

\* State of simplify_model
VARIABLES
    mpc,          \* position inside simplify_model
    mModel,       \* the variable model: "none", "loaded", "simplified"
    \* the simplifier: "none", "unavailable", "raised", "unchecked", "ok"
    mSimp,
    mOps,         \* ops: the operator types of model.graph.node
    found_problems,       \* found_problems
    mIndex,       \* input tensors examined so far
    mTensor,      \* the declared dimensions of the input tensor examined last
    mShape,       \* the list shape computed for it
    mFlagged,     \* it was reported as a dynamic shape
    \* what onnx.save wrote to output_path: "none", "loaded", "simplified"
    mSaved,
    mExit         \* "running", "returned", "raised"

simpVars == <<mpc, mModel, mSimp, mOps, found_problems, mIndex, mTensor,
              mShape, mFlagged,
              mSaved, mExit>>

vars == <<convVars, simpleVars, acqVars, inspVars, simpVars>>

\* What a step of one script leaves alone: the state of the other scripts.
convOthers == <<simpleVars, acqVars, inspVars, simpVars>>
simpleOthers == <<convVars, acqVars, inspVars, simpVars>>
acqOthers == <<convVars, simpleVars, inspVars, simpVars>>
inspOthers == <<convVars, simpleVars, acqVars, simpVars>>
simpOthers == <<convVars, simpleVars, acqVars, inspVars>>

(***************************************************************************)
(* onnx_to_tflite.py                                                       *)
(***************************************************************************)
Names == {"saved_model", "__tmp_saved_model__", "saved_model.pb", "variables",
          "user", "side"}
SubDirs == {"saved_model", "__tmp_saved_model__"}
SubNames == {"saved_model.pb", "variables"}
\* "other": neither os.path.isdir nor os.path.isfile (a broken symlink, a fifo)
Kind == {"none", "file", "dir", "other"}

EmptyDir == [n \in Names |-> "none"]
EmptySub == [d \in SubDirs |-> {}]

\* The kind an entry of a SavedModel has once it sits in a directory.
KindOf(n) == IF n = "variables" THEN "dir" ELSE "file"

Entries(dir) == {n \in Names : dir[n] # "none"}

\* What a user may have left in an existing --saved-model-dir directory.
UserDirs ==
    {d \in [Names -> Kind] :
        /\ d["saved_model"] = "none"
        /\ d["variables"] = "none"
        /\ d["side"] = "none"
        /\ d["__tmp_saved_model__"] \in {"none", "file", "dir"}
        /\ d["saved_model.pb"] \in {"none", "file"}}

UserSubs(d) ==
    {s \in [SubDirs -> SUBSET SubNames] :
        /\ s["saved_model"] = {}
        /\ s["__tmp_saved_model__"] \in
              (IF d["__tmp_saved_model__"] = "dir" THEN {{}, {"variables"}}
               ELSE {{}})}

InitConv ==
    /\ cpc = "check"
    /\ onnxIsFile \in BOOLEAN
    /\ smArg \in BOOLEAN
    /\ \/ /\ smArg
          /\ \/ root = "dir" /\ out_dir \in UserDirs /\ sub \in UserSubs(out_dir)
             \/ root \in {"absent", "file"} /\ out_dir = EmptyDir /\ sub = EmptySub
       \/ /\ ~smArg
          /\ root = "absent" /\ out_dir = EmptyDir /\ sub = EmptySub
    /\ tmpExists = FALSE
    /\ tmpCreated = FALSE
    /\ madeDirs = FALSE
    /\ keep_saved_model = FALSE
    /\ aTried = FALSE
    /\ aDone = FALSE
    /\ aRaised = "none"
    /\ bTried = FALSE
    /\ s1Raised = "none"
    /\ tfTried = FALSE
    /\ s2Raised = "none"
    /\ outWritten = FALSE
    /\ pending = "none"
    /\ exit = "running"
    /\ ret = -1

\* The input check left out.
InputCheckSkipped == FALSE

\* if not os.path.isfile(onnx_path)
InputMissing == ~onnxIsFile

\* keep_saved_model never set.
KeepNever(arg) == FALSE

\* keep_saved_model as main() sets it from args.saved_model_dir
KeepSavedModel(arg) == arg

\* main(): the input check, "return 1" when the input is no file
CheckInput ==
    /\ cpc = "check"
    /\ IF InputMissing
       THEN /\ cpc' = "done"
            /\ exit' = "returned"
            /\ ret' = 1
       ELSE /\ cpc' = "prepare"
            /\ UNCHANGED <<exit, ret>>
    /\ UNCHANGED <<onnxIsFile, smArg, root, out_dir, sub, tmpExists, tmpCreated,
                   madeDirs, keep_saved_model, aTried, aDone, aRaised, bTried,
                   s1Raised,
                   tfTried, s2Raised, outWritten, pending>>
    /\ UNCHANGED convOthers

\* main(): "Prepare SavedModel dir"; os.makedirs raises FileExistsError, outside
\* the try block, when the path is an existing file
PrepareDir ==
    /\ cpc = "prepare"
    /\ IF smArg
       THEN /\ madeDirs' = TRUE
            /\ UNCHANGED <<tmpExists, tmpCreated>>
            /\ IF root = "file"
               THEN /\ cpc' = "done"
                    /\ exit' = "raised"
                    /\ UNCHANGED <<root, keep_saved_model>>
               ELSE /\ root' = "dir"
                    /\ keep_saved_model' = KeepSavedModel(TRUE)
                    /\ cpc' = "mkdirs"
                    /\ UNCHANGED exit
       ELSE /\ tmpExists' = TRUE
            /\ tmpCreated' = TRUE
            /\ keep_saved_model' = KeepSavedModel(FALSE)
            /\ cpc' = "mkdirs"
            /\ UNCHANGED <<root, madeDirs, exit>>
    /\ UNCHANGED <<onnxIsFile, smArg, out_dir, sub, aTried, aDone, aRaised,
                   bTried,
                   s1Raised, tfTried, s2Raised, outWritten, pending, ret>>
    /\ UNCHANGED convOthers

\* main(): os.makedirs(saved_model_dir, exist_ok=True), first statement of the try
MakeDirs ==
    /\ cpc = "mkdirs"
    /\ root' = "dir"
    /\ madeDirs' = TRUE
    /\ cpc' = "a_import"
    /\ UNCHANGED <<onnxIsFile, smArg, out_dir, sub, tmpExists, tmpCreated,
                   keep_saved_model,
                   aTried, aDone, aRaised, bTried, s1Raised, tfTried, s2Raised,
                   outWritten, pending, exit, ret>>
    /\ UNCHANGED convOthers

\* main(): "except Exception as e: ... return 2"; anything else propagates
MainCaught(o) == o = "exc"

Fail(o) == IF MainCaught(o) THEN "ret2" ELSE "raise"

\* Backend A called with no handler around it.
NoFallback(o) == FALSE

\* The handlers around backend A ("except Exception" at the import, then
\* "except ModuleNotFoundError" and "except Exception") catch Exception only.
ACaught(o) == o = "exc"

\* from onnx2tf import convert
AImport ==
    /\ cpc = "a_import"
    /\ aTried' = TRUE
    /\ \E o \in Outcome :
          \/ /\ o = "ok"
             /\ cpc' = "a_convert"
             /\ UNCHANGED <<aRaised, pending, s1Raised>>
          \/ /\ o # "ok"
             /\ aRaised' = o
             /\ IF ACaught(o)
                THEN cpc' = "b_import" /\ UNCHANGED <<pending, s1Raised>>
                ELSE cpc' = "finally" /\ pending' = Fail(o) /\ s1Raised' = o
    /\ UNCHANGED <<onnxIsFile, smArg, root, out_dir, sub, tmpExists, tmpCreated,
                   madeDirs, keep_saved_model, aDone, bTried, tfTried,
                   s2Raised, outWritten,
                   exit, ret>>
    /\ UNCHANGED convOthers

\* What onnx2tf may leave in output_folder_path: a saved_model subdirectory
\* with some contents, and side outputs next to it.
AEffects ==
    {[sm |-> FALSE, content |-> {}, side |-> s] : s \in BOOLEAN}
    \cup {[sm |-> TRUE, content |-> c, side |-> s] :
             c \in {{}, {"saved_model.pb"}, SubNames}, s \in BOOLEAN}

ADir(dir, eff) ==
    [n \in Names |->
        IF n = "saved_model" /\ eff.sm THEN "dir"
        ELSE IF n = "side" /\ eff.side THEN "file"
        ELSE dir[n]]

ASub(s, eff) ==
    IF eff.sm THEN [s EXCEPT !["saved_model"] = @ \cup eff.content] ELSE s

\* onnx2tf_convert(input_onnx_file_path=..., output_folder_path=out_dir, ...)
AConvert ==
    /\ cpc = "a_convert"
    /\ \E o \in Outcome, eff \in AEffects :
          /\ out_dir' = ADir(out_dir, eff)
          /\ sub' = ASub(sub, eff)
          /\ \/ /\ o = "ok"
                /\ cpc' = "reroot"
                /\ UNCHANGED <<aRaised, pending, s1Raised>>
             \/ /\ o # "ok"
                /\ aRaised' = o
                /\ IF ACaught(o)
                   THEN cpc' = "b_import" /\ UNCHANGED <<pending, s1Raised>>
                   ELSE cpc' = "finally" /\ pending' = Fail(o) /\ s1Raised' = o
    /\ UNCHANGED <<onnxIsFile, smArg, root, tmpExists, tmpCreated, madeDirs,
                   keep_saved_model,
                   aTried, aDone, bTried, tfTried, s2Raised, outWritten, exit,
                   ret>>
    /\ UNCHANGED convOthers

\* os.rename(saved_model_dir, tmp) raises OSError when tmp is an existing file or
\* a non-empty directory (an empty directory is replaced).
RenameRaises(dir, s) ==
    \/ dir["__tmp_saved_model__"] \in {"file", "other"}
    \/ dir["__tmp_saved_model__"] = "dir" /\ s["__tmp_saved_model__"] # {}

\* if os.path.isdir(saved_model_dir)
HasSavedModelSub(dir) == dir["saved_model"] = "dir"

\* The re-rooting without the cleaning loop: only the SavedModel's entries
\* are moved up and the two subdirectories go.
RerootWithoutCleaning(dir, s) ==
    [n \in Names |->
        IF n \in s["saved_model"] THEN KindOf(n)
        ELSE IF n \in SubDirs THEN "none"
        ELSE dir[n]]

\* The re-rooting: saved_model is renamed to __tmp_saved_model__, every other
\* entry that is a directory or a file is removed, the SavedModel's entries are
\* moved up and the emptied __tmp_saved_model__ is removed.
RerootDir(dir, s) ==
    [n \in Names |->
        IF n \in s["saved_model"] THEN KindOf(n)
        ELSE IF dir[n] = "other" THEN "other"
        ELSE "none"]

\* _convert_onnx_to_saved_model: after onnx2tf_convert returned
Reroot ==
    /\ cpc = "reroot"
    /\ IF HasSavedModelSub(out_dir)
       THEN IF RenameRaises(out_dir, sub)
            THEN /\ aRaised' = "exc"
                 /\ cpc' = IF ACaught("exc") THEN "b_import" ELSE "finally"
                 /\ pending' = IF ACaught("exc") THEN pending ELSE Fail("exc")
                 /\ s1Raised' = IF ACaught("exc") THEN s1Raised ELSE "exc"
                 /\ UNCHANGED <<out_dir, sub, aDone>>
            ELSE /\ out_dir' = RerootDir(out_dir, sub)
                 /\ sub' = EmptySub
                 /\ aDone' = TRUE
                 /\ cpc' = "tflite"
                 /\ UNCHANGED <<aRaised, pending, s1Raised>>
       ELSE /\ aDone' = TRUE
            /\ cpc' = "tflite"
            /\ UNCHANGED <<out_dir, sub, aRaised, pending, s1Raised>>
    /\ UNCHANGED <<onnxIsFile, smArg, root, tmpExists, tmpCreated, madeDirs,
                   keep_saved_model,
                   aTried, bTried, tfTried, s2Raised, outWritten, exit, ret>>
    /\ UNCHANGED convOthers

\* Fallback: import onnx, the onnx.mapping shim, from onnx_tf.backend import prepare
BImport ==
    /\ cpc = "b_import"
    /\ bTried' = TRUE
    /\ \E o \in Outcome :
          \/ /\ o = "ok"
             /\ cpc' = "b_convert"
             /\ UNCHANGED <<pending, s1Raised>>
          \/ /\ o # "ok"
             /\ cpc' = "finally"
             /\ pending' = Fail(o)
             /\ s1Raised' = o
    /\ UNCHANGED <<onnxIsFile, smArg, root, out_dir, sub, tmpExists, tmpCreated,
                   madeDirs, keep_saved_model, aTried, aDone, aRaised, tfTried,
                   s2Raised,
                   outWritten, exit, ret>>
    /\ UNCHANGED convOthers

BDir(dir, written) ==
    [n \in Names |-> IF n \in written THEN KindOf(n) ELSE dir[n]]

\* onnx.load, prepare(model), tf_rep.export_graph(out_dir)
BConvert ==
    /\ cpc = "b_convert"
    /\ \E o \in Outcome :
          \/ /\ o = "ok"
             /\ \E w \in {{"saved_model.pb"}, SubNames} : out_dir' = BDir(out_dir, w)
             /\ cpc' = "tflite"
             /\ UNCHANGED <<pending, s1Raised>>
          \/ /\ o # "ok"
             /\ \E w \in SUBSET SubNames : out_dir' = BDir(out_dir, w)
             /\ cpc' = "finally"
             /\ pending' = Fail(o)
             /\ s1Raised' = o
    /\ UNCHANGED <<onnxIsFile, smArg, root, sub, tmpExists, tmpCreated,
                   madeDirs,
                   keep_saved_model, aTried, aDone, aRaised, bTried, tfTried,
                   s2Raised,
                   outWritten, exit, ret>>
    /\ UNCHANGED convOthers

\* tf.lite.TFLiteConverter.from_saved_model(saved_model_dir) loads
\* saved_model_dir/saved_model.pb and raises when there is none.
IsSavedModel(dir) == dir["saved_model.pb"] = "file"

\* _convert_saved_model_to_tflite: import tensorflow, from_saved_model, convert,
\* os.makedirs of the output's directory, write of the output file
Tflite ==
    /\ cpc = "tflite"
    /\ tfTried' = TRUE
    /\ \E o \in Outcome :
          \/ /\ o = "ok"
             /\ IsSavedModel(out_dir)
             /\ outWritten' = TRUE
             /\ pending' = "ret0"
             /\ UNCHANGED s2Raised
          \/ /\ o # "ok"
             /\ pending' = Fail(o)
             /\ s2Raised' = o
             /\ UNCHANGED outWritten
    /\ cpc' = "finally"
    /\ UNCHANGED <<onnxIsFile, smArg, root, out_dir, sub, tmpExists, tmpCreated,
                   madeDirs, keep_saved_model, aTried, aDone, aRaised, bTried,
                   s1Raised, exit,
                   ret>>
    /\ UNCHANGED convOthers

\* The cleanup's condition inverted.
CleansUpInverted(k) == k

\* finally: if not keep_saved_model: tmpdir.cleanup()
CleansUp(k) == ~k

\* A return 0 placed in the finally block.
ExitCodeFromFinally(p) == 0

\* The code main() returns: 2 from the except clause, 0 from the last line.
ExitCode(p) == IF p = "ret2" THEN 2 ELSE 0

\* main(): the finally block, then the return (or the exception going on)
Finally ==
    /\ cpc = "finally"
    /\ IF CleansUp(keep_saved_model)
       THEN /\ tmpExists' = FALSE
            /\ root' = "absent"
            /\ out_dir' = EmptyDir
            /\ sub' = EmptySub
       ELSE UNCHANGED <<tmpExists, root, out_dir, sub>>
    /\ IF pending = "raise"
       THEN exit' = "raised" /\ UNCHANGED ret
       ELSE exit' = "returned" /\ ret' = ExitCode(pending)
    /\ cpc' = "done"
    /\ UNCHANGED <<onnxIsFile, smArg, tmpCreated, madeDirs, keep_saved_model,
                   aTried, aDone,
                   aRaised, bTried, s1Raised, tfTried, s2Raised, outWritten,
                   pending>>
    /\ UNCHANGED convOthers

NextConv ==
    \/ CheckInput
    \/ PrepareDir
    \/ MakeDirs
    \/ AImport
    \/ AConvert
    \/ Reroot
    \/ BImport
    \/ BConvert
    \/ Tflite
    \/ Finally

(***************************************************************************)
(* onnx_to_tflite_simple.py                                                *)
(***************************************************************************)
MaxArgc == 4

InitSimple ==
    /\ spc = "usage"
    /\ sArgc \in 1..MaxArgc
    /\ sIsFile \in BOOLEAN
    /\ sTmpExists = FALSE
    /\ sTmpCreated = FALSE
    /\ sDir = EmptyDir
    /\ sSub = EmptySub
    /\ sStage = "none"
    /\ sRaised = "none"
    /\ sOutWritten = FALSE
    /\ sPending = "none"
    /\ sExit = "running"
    /\ sRet = -1

\* if len(sys.argv) < 3
UsageError(argc) == argc < 3

\* main(): the usage check and the input check, each "return 1"
SimpleCheck ==
    /\ spc = "usage"
    /\ IF UsageError(sArgc) \/ ~sIsFile
       THEN /\ spc' = "done"
            /\ sExit' = "returned"
            /\ sRet' = 1
            /\ UNCHANGED <<sTmpExists, sTmpCreated>>
       ELSE /\ spc' = "import"
            /\ sTmpExists' = TRUE
            /\ sTmpCreated' = TRUE
            /\ UNCHANGED <<sExit, sRet>>
    /\ UNCHANGED <<sArgc, sIsFile, sDir, sSub, sStage, sRaised, sOutWritten,
                   sPending>>
    /\ UNCHANGED simpleOthers

\* "except ImportError" and "except Exception" around the import and the
\* conversion: each returns 2; a BaseException goes on.
SimpleStep1Fail(o) == IF o = "exc" THEN "ret2" ELSE "raise"

\* from onnx2tf import convert
SimpleImport ==
    /\ spc = "import"
    /\ \E o \in Outcome :
          \/ /\ o = "ok"
             /\ spc' = "convert"
             /\ UNCHANGED <<sStage, sRaised, sPending>>
          \/ /\ o # "ok"
             /\ sStage' = "import"
             /\ sRaised' = o
             /\ sPending' = SimpleStep1Fail(o)
             /\ spc' = "finally"
    /\ UNCHANGED <<sArgc, sIsFile, sTmpExists, sTmpCreated, sDir, sSub,
                   sOutWritten, sExit, sRet>>
    /\ UNCHANGED simpleOthers

\* convert(input_onnx_file_path=..., output_folder_path=tmpdir, ...)
SimpleConvert ==
    /\ spc = "convert"
    /\ \E o \in Outcome, eff \in AEffects :
          /\ sDir' = ADir(sDir, eff)
          /\ sSub' = ASub(sSub, eff)
          /\ \/ /\ o = "ok"
                /\ spc' = "subdir"
                /\ UNCHANGED <<sStage, sRaised, sPending>>
             \/ /\ o # "ok"
                /\ sStage' = "convert"
                /\ sRaised' = o
                /\ sPending' = SimpleStep1Fail(o)
                /\ spc' = "finally"
    /\ UNCHANGED <<sArgc, sIsFile, sTmpExists, sTmpCreated, sOutWritten, sExit,
                   sRet>>
    /\ UNCHANGED simpleOthers

\* if not os.path.isdir(saved_model_dir): ... return 2
SimpleSubdir ==
    /\ spc = "subdir"
    /\ IF ~HasSavedModelSub(sDir)
       THEN /\ sStage' = "missing"
            /\ sPending' = "ret2"
            /\ spc' = "finally"
       ELSE /\ spc' = "tflite"
            /\ UNCHANGED <<sStage, sPending>>
    /\ UNCHANGED <<sArgc, sIsFile, sTmpExists, sTmpCreated, sDir, sSub, sRaised,
                   sOutWritten, sExit, sRet>>
    /\ UNCHANGED simpleOthers

\* Step 2/2 stands in the try block with no except clause: whatever it raises
\* goes through the finally block and out of main().
SimpleStep2Fail(o) == "raise"

\* from_saved_model(tmpdir/saved_model) raises when it holds no saved_model.pb
SimpleIsSavedModel(s) == "saved_model.pb" \in s["saved_model"]

\* import tensorflow, from_saved_model, convert, os.makedirs, write, return 0
SimpleTflite ==
    /\ spc = "tflite"
    /\ \E o \in Outcome :
          \/ /\ o = "ok"
             /\ SimpleIsSavedModel(sSub)
             /\ sOutWritten' = TRUE
             /\ sPending' = "ret0"
             /\ UNCHANGED <<sStage, sRaised>>
          \/ /\ o # "ok"
             /\ sStage' = "tflite"
             /\ sRaised' = o
             /\ sPending' = SimpleStep2Fail(o)
             /\ UNCHANGED sOutWritten
    /\ spc' = "finally"
    /\ UNCHANGED <<sArgc, sIsFile, sTmpExists, sTmpCreated, sDir, sSub, sExit,
                   sRet>>
    /\ UNCHANGED simpleOthers

\* The code main() returns: 2 from the failure branches, 0 from the last line.
SimpleExitCode(p) == IF p = "ret2" THEN 2 ELSE 0

\* shutil.rmtree(tmpdir) as the last statement of the try block, after the
\* output is written, with no finally
SimpleFinallyOnSuccessOnly ==
    /\ spc = "finally"
    /\ IF sPending = "ret0"
       THEN sTmpExists' = FALSE /\ sDir' = EmptyDir /\ sSub' = EmptySub
       ELSE UNCHANGED <<sTmpExists, sDir, sSub>>
    /\ IF sPending = "raise"
       THEN sExit' = "raised" /\ UNCHANGED sRet
       ELSE sExit' = "returned" /\ sRet' = SimpleExitCode(sPending)
    /\ spc' = "done"
    /\ UNCHANGED <<sArgc, sIsFile, sTmpCreated, sStage, sRaised, sOutWritten,
                   sPending>>
    /\ UNCHANGED simpleOthers

\* finally: shutil.rmtree(tmpdir, ignore_errors=True), then the return
SimpleFinally ==
    /\ spc = "finally"
    /\ sTmpExists' = FALSE
    /\ sDir' = EmptyDir
    /\ sSub' = EmptySub
    /\ IF sPending = "raise"
       THEN sExit' = "raised" /\ UNCHANGED sRet
       ELSE sExit' = "returned" /\ sRet' = SimpleExitCode(sPending)
    /\ spc' = "done"
    /\ UNCHANGED <<sArgc, sIsFile, sTmpCreated, sStage, sRaised, sOutWritten,
                   sPending>>
    /\ UNCHANGED simpleOthers

NextSimple ==
    \/ SimpleCheck
    \/ SimpleImport
    \/ SimpleConvert
    \/ SimpleSubdir
    \/ SimpleTflite
    \/ SimpleFinally

(***************************************************************************)
(* download_optical_flow.py and download_film.py: the acquirers            *)
(*                                                                         *)
(* A caller calls the acquirer functions one after the other, up to        *)
(* MaxCalls times; the files they leave stay on disk between the calls.    *)
(***************************************************************************)
MaxCalls == 3

InitAcq ==
    /\ dpc = "idle"
    /\ dFn = "none"
    /\ dCalls = 0
    /\ dest \in {"none", "old"}
    /\ destAtStart = "none"
    /\ ofDir \in (IF dest = "none" THEN {"absent", "dir", "file"} ELSE {"dir"})
    /\ filmDir \in BOOLEAN
    /\ skelOut \in BOOLEAN
    /\ dImport = "none"
    /\ dRaised = "none"
    /\ dRetrieved = FALSE
    /\ dHubCalled = FALSE
    /\ dResult = "none"
    /\ dExit = "running"
    /\ dInspected = FALSE

\* A call of one of the acquirers starts: the try block is entered.
AcqCall ==
    /\ dpc = "idle"
    /\ dCalls < MaxCalls
    /\ \E f \in {"raft", "film", "skeleton"} : dFn' = f
    /\ dCalls' = dCalls + 1
    /\ dpc' = "import"
    /\ destAtStart' = dest
    /\ dImport' = "none"
    /\ dRaised' = "none"
    /\ dRetrieved' = FALSE
    /\ dHubCalled' = FALSE
    /\ dResult' = "none"
    /\ dExit' = "running"
    /\ dInspected' = FALSE
    /\ UNCHANGED <<dest, ofDir, filmDir, skelOut>>
    /\ UNCHANGED acqOthers

\* No except clause around the acquirer's steps.
AcqCaughtNever(o) == FALSE

\* "except Exception as e: ... return None" (download_film_model has
\* "except ImportError" before it, returning None too); a BaseException goes on.
AcqCaught(o) == o = "exc"

\* The end of a call whose step raised o.
AcqRaise(o) ==
    /\ dRaised' = o
    /\ dpc' = IF dFn = "film" /\ AcqCaught(o) THEN "main" ELSE "idle"
    /\ IF AcqCaught(o)
       THEN dResult' = "None" /\ dExit' = "returned"
       ELSE dResult' = "none" /\ dExit' = "raised"

\* The end of a call that reached its "return output_path".
AcqReturn ==
    /\ dResult' = "path"
    /\ dExit' = "returned"
    /\ dpc' = IF dFn = "film" THEN "main" ELSE "idle"

\* The imports at the head of each try block: torch and urllib.request,
\* tensorflow and tensorflow_hub, tensorflow and keras.
AcqImport ==
    /\ dpc = "import"
    /\ \E o \in Outcome :
          /\ dImport' = o
          /\ \/ /\ o = "ok"
                /\ dpc' = IF dFn = "raft" THEN "makedirs"
                          ELSE IF dFn = "film" THEN "load" ELSE "build"
                /\ UNCHANGED <<dRaised, dResult, dExit>>
             \/ /\ o # "ok"
                /\ AcqRaise(o)
    /\ UNCHANGED <<dFn, dCalls, dest, destAtStart, ofDir, filmDir, skelOut,
                   dRetrieved, dHubCalled, dInspected>>
    /\ UNCHANGED acqOthers

\* download_raft_lite: os.makedirs("optical_flow_models", exist_ok=True), which
\* raises FileExistsError when the path is a file
RaftMakedirs ==
    /\ dpc = "makedirs" /\ dFn = "raft"
    /\ IF ofDir = "file"
       THEN AcqRaise("exc") /\ UNCHANGED ofDir
       ELSE ofDir' = "dir" /\ dpc' = "exists" /\ UNCHANGED <<dRaised, dResult,
                                                             dExit>>
    /\ UNCHANGED <<dFn, dCalls, dest, destAtStart, filmDir, skelOut, dImport,
                   dRetrieved, dHubCalled, dInspected>>
    /\ UNCHANGED acqOthers

\* The existence check left out.
DestNeverExists(d) == FALSE

\* if os.path.exists(output_path)
DestExists(d) == d # "none"

\* download_raft_lite: the existence check, "return output_path" when it holds
RaftExists ==
    /\ dpc = "exists" /\ dFn = "raft"
    /\ IF DestExists(dest)
       THEN AcqReturn /\ UNCHANGED dRaised
       ELSE dpc' = "retrieve" /\ UNCHANGED <<dRaised, dResult, dExit>>
    /\ UNCHANGED <<dFn, dCalls, dest, destAtStart, ofDir, filmDir, skelOut,
                   dImport,
                   dRetrieved, dHubCalled, dInspected>>
    /\ UNCHANGED acqOthers

\* download_raft_lite: urllib.request.urlretrieve(model_url, output_path), which
\* may leave a partial file behind when it raises
RaftRetrieve ==
    /\ dpc = "retrieve" /\ dFn = "raft"
    /\ dRetrieved' = TRUE
    /\ \E o \in Outcome :
          \/ /\ o = "ok"
             /\ dest' = "new"
             /\ AcqReturn
             /\ UNCHANGED dRaised
          \/ /\ o # "ok"
             /\ dest' \in {dest, "partial"}
             /\ AcqRaise(o)
    /\ UNCHANGED <<dFn, dCalls, destAtStart, ofDir, filmDir, skelOut, dImport,
                   dHubCalled, dInspected>>
    /\ UNCHANGED acqOthers

\* download_film_model: interpolator = hub.load(model_url)
FilmLoad ==
    /\ dpc = "load" /\ dFn = "film"
    /\ dHubCalled' = TRUE
    /\ \E o \in Outcome :
          \/ /\ o = "ok"
             /\ dpc' = "signature"
             /\ UNCHANGED <<dRaised, dResult, dExit>>
          \/ /\ o # "ok"
             /\ AcqRaise(o)
    /\ UNCHANGED <<dFn, dCalls, dest, destAtStart, ofDir, filmDir, skelOut,
                   dImport,
                   dRetrieved, dInspected>>
    /\ UNCHANGED acqOthers

\* download_film_model: interpolator.signatures['serving_default'] and its
\* structured signature, read for the report
FilmSignature ==
    /\ dpc = "signature" /\ dFn = "film"
    /\ \E o \in Outcome :
          \/ /\ o = "ok"
             /\ dpc' = "save"
             /\ UNCHANGED <<dRaised, dResult, dExit>>
          \/ /\ o # "ok"
             /\ AcqRaise(o)
    /\ UNCHANGED <<dFn, dCalls, dest, destAtStart, ofDir, filmDir, skelOut,
                   dImport,
                   dRetrieved, dHubCalled, dInspected>>
    /\ UNCHANGED acqOthers

\* download_film_model: tf.saved_model.save(interpolator, output_dir)
FilmSave ==
    /\ dpc = "save" /\ dFn = "film"
    /\ \E o \in Outcome :
          \/ /\ o = "ok"
             /\ filmDir' = TRUE
             /\ AcqReturn
             /\ UNCHANGED dRaised
          \/ /\ o # "ok"
             /\ filmDir' \in {filmDir, TRUE}
             /\ AcqRaise(o)
    /\ UNCHANGED <<dFn, dCalls, dest, destAtStart, ofDir, skelOut, dImport,
                   dRetrieved, dHubCalled, dInspected>>
    /\ UNCHANGED acqOthers

\* download_film.py entry point: if model_path and os.path.exists(model_path)
RunsInspection(result, exists) == result = "path" /\ exists

\* download_film.py entry point, after download_film_model() returned
FilmMain ==
    /\ dpc = "main" /\ dFn = "film"
    /\ dInspected' = RunsInspection(dResult, filmDir)
    /\ dpc' = "idle"
    /\ UNCHANGED <<dFn, dCalls, dest, destAtStart, ofDir, filmDir, skelOut,
                   dImport,
                   dRaised, dRetrieved, dHubCalled, dResult, dExit>>
    /\ UNCHANGED acqOthers

\* create_simple_optical_flow_tflite: the keras model is built, model.summary()
SkeletonBuild ==
    /\ dpc = "build" /\ dFn = "skeleton"
    /\ \E o \in Outcome :
          \/ /\ o = "ok"
             /\ dpc' = "convert"
             /\ UNCHANGED <<dRaised, dResult, dExit>>
          \/ /\ o # "ok"
             /\ AcqRaise(o)
    /\ UNCHANGED <<dFn, dCalls, dest, destAtStart, ofDir, filmDir, skelOut,
                   dImport,
                   dRetrieved, dHubCalled, dInspected>>
    /\ UNCHANGED acqOthers

\* create_simple_optical_flow_tflite: from_keras_model(model), converter.convert()
SkeletonConvert ==
    /\ dpc = "convert" /\ dFn = "skeleton"
    /\ \E o \in Outcome :
          \/ /\ o = "ok"
             /\ dpc' = "write"
             /\ UNCHANGED <<dRaised, dResult, dExit>>
          \/ /\ o # "ok"
             /\ AcqRaise(o)
    /\ UNCHANGED <<dFn, dCalls, dest, destAtStart, ofDir, filmDir, skelOut,
                   dImport,
                   dRetrieved, dHubCalled, dInspected>>
    /\ UNCHANGED acqOthers

\* create_simple_optical_flow_tflite: os.makedirs of the assets directory and
\* the write of the output file
SkeletonWrite ==
    /\ dpc = "write" /\ dFn = "skeleton"
    /\ \E o \in Outcome :
          \/ /\ o = "ok"
             /\ skelOut' = TRUE
             /\ AcqReturn
             /\ UNCHANGED dRaised
          \/ /\ o # "ok"
             /\ skelOut' \in {skelOut, TRUE}
             /\ AcqRaise(o)
    /\ UNCHANGED <<dFn, dCalls, dest, destAtStart, ofDir, filmDir, dImport,
                   dRetrieved, dHubCalled, dInspected>>
    /\ UNCHANGED acqOthers

NextAcq ==
    \/ AcqCall
    \/ AcqImport
    \/ RaftMakedirs
    \/ RaftExists
    \/ RaftRetrieve
    \/ FilmLoad
    \/ FilmSignature
    \/ FilmSave
    \/ FilmMain
    \/ SkeletonBuild
    \/ SkeletonConvert
    \/ SkeletonWrite

(***************************************************************************)
(* download_film.py: inspect_saved_model                                   *)
(***************************************************************************)
Ops == {"Conv2D", "Resample", "GridSampler"}
MaxNodes == 4
TopN == 20

\* The sequences over S of length at most n.
SeqsUpTo(S, n) == UNION {[1..k -> S] : k \in 0..n}

InitInspect ==
    /\ ipc = "load"
    /\ iDisk \in SeqsUpTo(Ops, MaxNodes)
    /\ iGraph = <<>>
    /\ iIndex = 0
    /\ opOrder = <<>>
    /\ op_types = [o \in {} |-> 0]
    /\ iListing = <<>>
    /\ problematic = <<>>
    /\ iResult = "none"
    /\ iRaised = "none"
    /\ iExit = "running"

\* No handler around the body of inspect_saved_model
InspectCaughtNever(o) == FALSE

\* "except Exception as e": the handler of the try block that holds the whole
\* body; a BaseException that is not an Exception goes on to the caller
InspectCaught(o) == o = "exc"

\* import tensorflow, tf.saved_model.load(model_path),
\* model.signatures['serving_default'], concrete_func.graph.as_graph_def();
\* the handler prints and returns None
InspectLoad ==
    /\ ipc = "load"
    /\ \E o \in Outcome :
          \/ /\ o = "ok"
             /\ iGraph' = iDisk
             /\ ipc' = "tally"
             /\ UNCHANGED <<iResult, iRaised, iExit>>
          \/ /\ o # "ok"
             /\ InspectCaught(o)
             /\ iRaised' = o
             /\ iResult' = "None"
             /\ iExit' = "returned"
             /\ ipc' = "done"
             /\ UNCHANGED iGraph
          \/ /\ o # "ok"
             /\ ~InspectCaught(o)
             /\ iRaised' = o
             /\ iExit' = "raised"
             /\ ipc' = "done"
             /\ UNCHANGED <<iGraph, iResult>>
    /\ UNCHANGED <<iDisk, iIndex, opOrder, op_types, iListing, problematic>>
    /\ UNCHANGED inspOthers

\* op_types.get(op, 0)
Get(d, op) == IF op \in DOMAIN d THEN d[op] ELSE 0

\* op_types[node.op] = 1
TallyOverwrite(d, op) ==
    [k \in DOMAIN d \cup {op} |-> IF k = op THEN 1 ELSE d[k]]

\* op_types[node.op] = op_types.get(node.op, 0) + 1
Tally(d, op) ==
    [k \in DOMAIN d \cup {op} |-> IF k = op THEN Get(d, op) + 1 ELSE d[k]]

\* for node in graph_def.node: one iteration
TallyNode ==
    /\ ipc = "tally"
    /\ iIndex < Len(iGraph)
    /\ LET op == iGraph[iIndex + 1]
       IN  /\ op_types' = Tally(op_types, op)
           /\ opOrder' = IF op \in DOMAIN op_types THEN opOrder ELSE Append(opOrder, op)
    /\ iIndex' = iIndex + 1
    /\ UNCHANGED <<ipc, iDisk, iGraph, iListing, problematic, iResult,
                   iRaised, iExit>>
    /\ UNCHANGED inspOthers

\* sorted(..., key=lambda x: -x[1]) places an item after the items whose key is
\* not greater: after every item with a count at least its own (a stable sort).
RECURSIVE InsertByCount(_, _, _)
InsertByCount(d, sorted, k) ==
    IF sorted = <<>> THEN <<k>>
    ELSE IF -d[Head(sorted)] <= -d[k]
         THEN <<Head(sorted)>> \o InsertByCount(d, Tail(sorted), k)
         ELSE <<k>> \o sorted

RECURSIVE SortedByCount(_, _)
SortedByCount(d, keys) ==
    IF keys = <<>> THEN <<>>
    ELSE InsertByCount(d, SortedByCount(d, SubSeq(keys, 1, Len(keys) - 1)),
                       keys[Len(keys)])

\* sorted(op_types.items(), key=lambda x: -x[1])[:20]
Listing(d, keys) ==
    LET s == SortedByCount(d, keys)
    IN  SubSeq(s, 1, IF Len(s) < TopN THEN Len(s) ELSE TopN)

\* 'ResampleGrad' in op_types or 'Resample' in op_types
HasResample(d) == "ResampleGrad" \in DOMAIN d \/ "Resample" \in DOMAIN d

\* op.startswith('Custom') or 'Grid' in op, over the operator names of Ops
IsCustomOp(op) == op \in {"GridSampler"}

\* [op for op in op_types if ...]: the keys kept, in insertion order
RECURSIVE CustomOps(_)
CustomOps(keys) ==
    IF keys = <<>> THEN <<>>
    ELSE (IF IsCustomOp(Head(keys)) THEN <<Head(keys)>> ELSE <<>>)
         \o CustomOps(Tail(keys))

Problematic(d, keys) ==
    (IF HasResample(d) THEN <<"Resample/ResampleGrad (custom op)">> ELSE <<>>)
    \o CustomOps(keys)

\* The report after the loop, the check for problematic ops, "return op_types"
InspectReport ==
    /\ ipc = "tally"
    /\ iIndex = Len(iGraph)
    /\ iListing' = Listing(op_types, opOrder)
    /\ problematic' = Problematic(op_types, opOrder)
    /\ iResult' = "tally"
    /\ iExit' = "returned"
    /\ ipc' = "done"
    /\ UNCHANGED <<iDisk, iGraph, iIndex, opOrder, op_types, iRaised>>
    /\ UNCHANGED inspOthers

NextInspect ==
    \/ InspectLoad
    \/ TallyNode
    \/ InspectReport

(***************************************************************************)
(* simplify_model.py: simplify_model                                       *)
(***************************************************************************)
OnnxOps == {"Conv", "GridSample"}
MaxInputs == 2
MaxRank == 2

\* The integers a dim_value is drawn from.
DimValues == {-2, -1, 0, 1}

\* A dimension of a declared shape: dim_value is set to an integer, or it is
\* not set (the dimension is symbolic or empty).
Dims ==
    {[set |-> FALSE, value |-> 0]}
    \cup {[set |-> TRUE, value |-> v] : v \in DimValues}

Tensors == SeqsUpTo(Dims, MaxRank)

InitSimplify ==
    /\ mpc = "load"
    /\ mModel = "none"
    /\ mSimp = "none"
    /\ mOps = {}
    /\ found_problems = {}
    /\ mIndex = 0
    /\ mTensor = <<>>
    /\ mShape = <<>>
    /\ mFlagged = FALSE
    /\ mSaved = "none"
    /\ mExit = "running"

\* model = onnx.load(input_path), outside any try block
SimplifyLoad ==
    /\ mpc = "load"
    /\ \E o \in Outcome :
          \/ /\ o = "ok"
             /\ mModel' = "loaded"
             /\ \E ops \in SUBSET OnnxOps : mOps' = ops
             /\ mpc' = "import"
             /\ UNCHANGED mExit
          \/ /\ o # "ok"
             /\ mExit' = "raised"
             /\ mpc' = "done"
             /\ UNCHANGED <<mModel, mOps>>
    /\ UNCHANGED <<mSimp, found_problems, mIndex, mTensor, mShape, mFlagged,
                   mSaved>>
    /\ UNCHANGED simpOthers

\* import onnxsim: "except ImportError" and "except Exception" both go on
SimplifyImport ==
    /\ mpc = "import"
    /\ \E o \in Outcome :
          \/ /\ o = "ok"
             /\ mpc' = "simplify"
             /\ UNCHANGED <<mSimp, mExit>>
          \/ /\ o = "exc"
             /\ mSimp' = "unavailable"
             /\ mpc' = "analyze"
             /\ UNCHANGED mExit
          \/ /\ o = "base"
             /\ mExit' = "raised"
             /\ mpc' = "done"
             /\ UNCHANGED mSimp
    /\ UNCHANGED <<mModel, mOps, found_problems, mIndex, mTensor, mShape,
                   mFlagged, mSaved>>
    /\ UNCHANGED simpOthers

\* if check: model = model_simp
Adopt(check) == check

\* model_simp, check = onnxsim.simplify(model, ...)
SimplifyRun ==
    /\ mpc = "simplify"
    /\ \E o \in Outcome :
          \/ /\ o = "ok"
             /\ \E check \in BOOLEAN, ops \in SUBSET OnnxOps :
                   IF Adopt(check)
                   THEN mModel' = "simplified" /\ mOps' = ops /\ mSimp' = "ok"
                   ELSE mSimp' = "unchecked" /\ UNCHANGED <<mModel, mOps>>
             /\ mpc' = "analyze"
             /\ UNCHANGED mExit
          \/ /\ o = "exc"
             /\ mSimp' = "raised"
             /\ mpc' = "analyze"
             /\ UNCHANGED <<mModel, mOps, mExit>>
          \/ /\ o = "base"
             /\ mExit' = "raised"
             /\ mpc' = "done"
             /\ UNCHANGED <<mModel, mOps, mSimp>>
    /\ UNCHANGED <<found_problems, mIndex, mTensor, mShape, mFlagged, mSaved>>
    /\ UNCHANGED simpOthers

problematic_ops ==
    {"GridSample", "NonMaxSuppression", "ScatterElements", "OneHot",
     "TopK", "RoiAlign"}

\* found_problems = ops & problematic_ops
SimplifyAnalyze ==
    /\ mpc = "analyze"
    /\ found_problems' = mOps \cap problematic_ops
    /\ mpc' = "shapes"
    /\ UNCHANGED <<mModel, mSimp, mOps, mIndex, mTensor, mShape, mFlagged,
                   mSaved,
                   mExit>>
    /\ UNCHANGED simpOthers

\* dim.dim_value reads 0 when the field is not set
DimValue(d) == IF d.set THEN d.value ELSE 0

\* dim.dim_value if dim.dim_value >= 0 else -1
ShapeEntryNonNegative(d) == IF DimValue(d) >= 0 THEN DimValue(d) ELSE -1

\* dim.dim_value if dim.dim_value > 0 else -1
ShapeEntry(d) == IF DimValue(d) > 0 THEN DimValue(d) ELSE -1

\* shape = [... for dim in input_tensor.type.tensor_type.shape.dim]
Shape(tensor) == [i \in 1..Len(tensor) |-> ShapeEntry(tensor[i])]

\* if -1 in shape
IsDynamic(shape) == \E i \in 1..Len(shape) : shape[i] = -1

\* for input_tensor in model.graph.input: one iteration, on the next input
\* tensor of the model
SimplifyShape ==
    /\ mpc = "shapes"
    /\ mIndex < MaxInputs
    /\ \E tensor \in Tensors :
          /\ mTensor' = tensor
          /\ mShape' = Shape(tensor)
          /\ mFlagged' = IsDynamic(Shape(tensor))
    /\ mIndex' = mIndex + 1
    /\ UNCHANGED <<mpc, mModel, mSimp, mOps, found_problems, mSaved, mExit>>
    /\ UNCHANGED simpOthers

\* onnx.save(model, output_path) only "if not found_problems"
SimplifySaveUnlessProblems ==
    /\ mpc = "shapes"
    /\ \E o \in Outcome :
          \/ /\ o = "ok"
             /\ mSaved' = IF found_problems = {} THEN mModel ELSE mSaved
             /\ mExit' = "returned"
          \/ /\ o # "ok"
             /\ mExit' = "raised"
             /\ UNCHANGED mSaved
    /\ mpc' = "done"
    /\ UNCHANGED <<mModel, mSimp, mOps, found_problems, mIndex, mTensor,
                   mShape, mFlagged>>
    /\ UNCHANGED simpOthers

\* onnx.save(model, output_path), return model
SimplifySave ==
    /\ mpc = "shapes"
    /\ \E o \in Outcome :
          \/ /\ o = "ok"
             /\ mSaved' = mModel
             /\ mExit' = "returned"
          \/ /\ o # "ok"
             /\ mExit' = "raised"
             /\ UNCHANGED mSaved
    /\ mpc' = "done"
    /\ UNCHANGED <<mModel, mSimp, mOps, found_problems, mIndex, mTensor,
                   mShape, mFlagged>>
    /\ UNCHANGED simpOthers

NextSimplify ==
    \/ SimplifyLoad
    \/ SimplifyImport
    \/ SimplifyRun
    \/ SimplifyAnalyze
    \/ SimplifyShape
    \/ SimplifySave

(***************************************************************************)
(* The specifications: one per script, the other scripts' state at rest.   *)
(***************************************************************************)
ConvRest ==
    /\ cpc = "rest" /\ onnxIsFile = FALSE /\ smArg = FALSE /\ root = "absent"
    /\ out_dir = EmptyDir /\ sub = EmptySub /\ tmpExists = FALSE
    /\ tmpCreated = FALSE /\ madeDirs = FALSE /\ keep_saved_model = FALSE /\ aTried = FALSE
    /\ aDone = FALSE /\ aRaised = "none" /\ bTried = FALSE /\ s1Raised = "none"
    /\ tfTried = FALSE /\ s2Raised = "none" /\ outWritten = FALSE
    /\ pending = "none" /\ exit = "running" /\ ret = -1

SimpleRest ==
    /\ spc = "rest" /\ sArgc = 1 /\ sIsFile = FALSE /\ sTmpExists = FALSE
    /\ sTmpCreated = FALSE /\ sDir = EmptyDir /\ sSub = EmptySub
    /\ sStage = "none" /\ sRaised = "none" /\ sOutWritten = FALSE
    /\ sPending = "none" /\ sExit = "running" /\ sRet = -1

AcqRest ==
    /\ dpc = "rest" /\ dFn = "none" /\ dCalls = 0 /\ dest = "none"
    /\ destAtStart = "none" /\ ofDir = "absent" /\ filmDir = FALSE
    /\ skelOut = FALSE /\ dImport = "none" /\ dRaised = "none"
    /\ dRetrieved = FALSE /\ dHubCalled = FALSE /\ dResult = "none"
    /\ dExit = "running" /\ dInspected = FALSE

InspectRest ==
    /\ ipc = "rest" /\ iDisk = <<>> /\ iGraph = <<>> /\ iIndex = 0
    /\ opOrder = <<>> /\ op_types = [o \in {} |-> 0] /\ iListing = <<>>
    /\ problematic = <<>> /\ iResult = "none" /\ iRaised = "none"
    /\ iExit = "running"

SimplifyRest ==
    /\ mpc = "rest" /\ mModel = "none" /\ mSimp = "none" /\ mOps = {}
    /\ found_problems = {} /\ mIndex = 0 /\ mTensor = <<>> /\ mShape = <<>>
    /\ mFlagged = FALSE /\ mSaved = "none" /\ mExit = "running"

\* The script onnx_to_tflite.py starts; the others are not run.
StartConv == InitConv /\ SimpleRest /\ AcqRest /\ InspectRest /\ SimplifyRest

SpecConv == StartConv /\ [][NextConv]_vars

\* The script onnx_to_tflite_simple.py starts; the others are not run.
StartSimple == ConvRest /\ InitSimple /\ AcqRest /\ InspectRest /\ SimplifyRest

SpecSimple == StartSimple /\ [][NextSimple]_vars

\* The script with the acquirers starts; the others are not run.
StartAcq == ConvRest /\ SimpleRest /\ InitAcq /\ InspectRest /\ SimplifyRest

SpecAcq == StartAcq /\ [][NextAcq]_vars

\* The script calling inspect_saved_model starts; the others are not run.
StartInspect == ConvRest /\ SimpleRest /\ AcqRest /\ InitInspect /\ SimplifyRest

SpecInspect == StartInspect /\ [][NextInspect]_vars

\* The script simplify_model.py starts; the others are not run.
StartSimplify == ConvRest /\ SimpleRest /\ AcqRest /\ InspectRest /\ InitSimplify

SpecSimplify == StartSimplify /\ [][NextSimplify]_vars

\* simplify_model is straight-line code with one bounded loop: as long as a
\* statement remains to be run, one is run (every library call comes back).
FairSimplify == SpecSimplify /\ WF_vars(NextSimplify)

(***************************************************************************)
(* The claims about onnx_to_tflite.py, checked under SpecConv.             *)
(***************************************************************************)

\* C1: when the --onnx path is not an existing regular file, main() returns 1,
\* and up to then it has attempted neither backend A nor backend B nor the
\* TFLite converter, has created no temporary directory and has not made the
\* --saved-model-dir directory.
C1_MissingInputReturnsOne ==
    ~onnxIsFile =>
        /\ ~aTried /\ ~bTried /\ ~tfTried
        /\ ~tmpCreated /\ ~tmpExists /\ ~madeDirs
        /\ cpc \in {"check", "done"}
        /\ cpc = "done" => (exit = "returned" /\ ret = 1)

C1_Witness ==
    /\ cpc = "done" /\ ~onnxIsFile /\ smArg /\ root = "absent"
    /\ exit = "returned" /\ ret = 1

\* C2, as amended: backend A is always attempted first; whenever A's import,
\* conversion or re-rooting raises an Exception, backend B is attempted before
\* the function can fail; B is never attempted when the backend A branch
\* returned; the function raises an Exception (main then returns 2) only after
\* both A and B were attempted.  A BaseException that is not an Exception,
\* raised by backend A, leaves the function at once and B is not attempted.
C2_FallbackOnException ==
    /\ bTried => aTried
    /\ tfTried => aTried
    /\ aRaised = "exc" => (cpc = "b_import" \/ bTried)
    /\ aDone => (~bTried /\ cpc # "b_import" /\ aRaised = "none")
    /\ s1Raised = "exc" => (aTried /\ bTried)
    /\ (cpc = "done" /\ s1Raised = "exc") => (exit = "returned" /\ ret = 2)
    /\ aRaised = "base" => (~bTried /\ s1Raised = "base")

C2_Witness ==
    /\ cpc = "done" /\ aRaised = "exc" /\ bTried /\ s1Raised = "exc"
    /\ exit = "returned" /\ ret = 2

\* C2 as stated: whenever A raises any exception, B is attempted before the
\* function can fail, and the function fails only after both were attempted.
C2_Original ==
    /\ bTried => aTried
    /\ aRaised # "none" => (cpc = "b_import" \/ bTried)
    /\ aDone => ~bTried
    /\ s1Raised # "none" => (aTried /\ bTried)

\* C3: without --saved-model-dir and with an existing input, the temporary
\* directory main() created is gone once main() has finished: after return 0,
\* after return 2, and when an exception main() does not catch leaves the try
\* block.
C3_TempDirRemoved ==
    (cpc = "done" /\ onnxIsFile /\ ~smArg) =>
        /\ tmpCreated
        /\ ~tmpExists
        /\ root = "absent"
        /\ (exit = "returned" => ret \in {0, 2})

C3_Witness ==
    /\ cpc = "done" /\ onnxIsFile /\ ~smArg /\ tmpCreated
    /\ exit = "raised" /\ tfTried /\ s2Raised = "base"

\* C4: with --saved-model-dir P and an existing input, after a run that
\* returned 0 directory P exists and is not empty; after a run that returned 2
\* (backend A failing and then backend B failing included) directory P still
\* exists: the cleanup step has not removed it.
C4_SavedModelDirKept ==
    (cpc = "done" /\ onnxIsFile /\ smArg /\ exit = "returned") =>
        /\ ret \in {0, 2}
        /\ root = "dir"
        /\ ~tmpCreated
        /\ ret = 0 => Entries(out_dir) # {}

C4_Witness ==
    /\ cpc = "done" /\ onnxIsFile /\ smArg /\ exit = "returned" /\ ret = 2
    /\ aRaised = "exc" /\ bTried /\ s1Raised = "exc" /\ root = "dir"

\* C5: main() returns 1 exactly when the input does not exist, 2 exactly when
\* the input exists and stage 1 (after both backends) or stage 2 raised an
\* Exception, 0 exactly when both stages completed and the output file was
\* written; stage 2 is never started when stage 1 failed; the finally block
\* does not change the code the try block decided.
C5_ExitCodes ==
    /\ s1Raised # "none" => ~tfTried
    /\ cpc = "done" =>
          /\ ~onnxIsFile => (exit = "returned" /\ ret = 1)
          /\ (onnxIsFile /\ (s1Raised = "exc" \/ s2Raised = "exc"))
                => (exit = "returned" /\ ret = 2)
          /\ outWritten => (exit = "returned" /\ ret = 0)
          /\ exit = "returned" =>
                /\ ret \in {0, 1, 2}
                /\ ret = 1 => ~onnxIsFile
                /\ ret = 2 => (onnxIsFile /\ (s1Raised = "exc" \/ s2Raised = "exc"))
                /\ ret = 0 => /\ onnxIsFile /\ outWritten /\ tfTried
                              /\ s1Raised = "none" /\ s2Raised = "none"
                              /\ (aDone \/ bTried)
                /\ pending = "ret0" => ret = 0
                /\ pending = "ret2" => ret = 2

C5_Witness ==
    /\ cpc = "done" /\ exit = "returned" /\ ret = 2 /\ ~smArg
    /\ s1Raised = "none" /\ s2Raised = "exc" /\ pending = "ret2"

(***************************************************************************)
(* The claim about onnx_to_tflite_simple.py, checked under SpecSimple.      *)
(***************************************************************************)

\* C6: main() of the simplified converter returns 0 when the output file was
\* written, 1 when the input file is not found, and 2 when a conversion stage
\* fails with an Exception: the onnx2tf import, the onnx2tf conversion, the
\* missing saved_model subdirectory, or step 2/2 (SavedModel -> TFLite and the
\* write of the output file).
C6_SimpleExitCodes ==
    spc = "done" =>
        /\ sOutWritten => (sExit = "returned" /\ sRet = 0)
        /\ (sArgc >= 3 /\ ~sIsFile) => (sExit = "returned" /\ sRet = 1)
        /\ (sStage # "none" /\ sRaised # "base") => (sExit = "returned" /\ sRet = 2)

(***************************************************************************)
(* The claims about the acquirers, checked under SpecAcq.                  *)
(***************************************************************************)
RaftCalled == dFn = "raft" /\ dCalls > 0
RaftOver == RaftCalled /\ dpc = "idle"
FilmOver == dFn = "film" /\ dCalls > 0 /\ dpc = "idle"

\* C7, as amended: whenever optical_flow_models/raft_small.pth exists when
\* download_raft_lite is called, the call does not call urlretrieve and leaves
\* the file as it is, and it returns the destination path provided its imports
\* (torch, urllib.request) succeed: when they raise an Exception it returns
\* None.  Every further call in that state does the same.  download_film_model
\* makes no such check: whenever its imports succeed it calls the hub load,
\* whatever is on disk.
C7_ExistingDestSkipsDownload ==
    /\ (RaftCalled /\ destAtStart # "none") =>
          /\ ~dRetrieved
          /\ dest = destAtStart
          /\ RaftOver =>
                /\ dImport = "ok" => (dExit = "returned" /\ dResult = "path")
                /\ dImport = "exc" => (dExit = "returned" /\ dResult = "None")
                /\ dImport = "base" => dExit = "raised"
    /\ (dFn = "film" /\ dCalls > 0 /\ dpc \in {"main", "idle"}) =>
          (dHubCalled <=> dImport = "ok")

C7_Witness ==
    /\ RaftOver /\ dCalls = MaxCalls /\ destAtStart = "old" /\ dest = "old"
    /\ dImport = "ok" /\ dResult = "path" /\ ~dRetrieved

\* C7 as stated: whenever the destination exists, a call that returns has
\* made no download, left the file unchanged and returned the destination
\* path; download_film_model always calls the hub load.
C7_Original ==
    /\ (RaftOver /\ destAtStart # "none" /\ dExit = "returned") =>
          (~dRetrieved /\ dest = destAtStart /\ dResult = "path")
    /\ (FilmOver /\ dExit = "returned") => dHubCalled

\* C8: no acquirer lets an Exception reach its caller: when a step raised an
\* Exception the function returned None, and it returned a path only when no
\* step raised; the download_film.py entry point runs the inspection only
\* when download_film_model returned a path and that path exists.
C8_AcquirersReturnNone ==
    /\ dExit = "raised" => dRaised = "base"
    /\ dRaised = "exc" => (dExit = "returned" /\ dResult = "None")
    /\ dResult = "path" => (dRaised = "none" /\ dImport = "ok" /\ dExit = "returned")
    /\ dResult = "None" => dRaised = "exc"
    /\ dInspected => (dFn = "film" /\ dResult = "path" /\ filmDir)

C8_Witness ==
    /\ dFn = "skeleton" /\ dpc = "idle" /\ dImport = "ok" /\ dRaised = "exc"
    /\ dExit = "returned" /\ dResult = "None"

(***************************************************************************)
(* The claim about inspect_saved_model, checked under SpecInspect.         *)
(***************************************************************************)
NodeCount(op, nodes) == Cardinality({i \in 1..Len(nodes) : nodes[i] = op})

RECURSIVE SumCounts(_, _)
SumCounts(d, keys) ==
    IF keys = {} THEN 0
    ELSE LET k == CHOOSE x \in keys : TRUE
         IN  d[k] + SumCounts(d, keys \ {k})

Position(seq, x) == CHOOSE i \in 1..Len(seq) : seq[i] = x

\* C9: the tally inspect_saved_model returns maps each operator type to the
\* number of nodes of that type (the counts sum to the number of nodes, no
\* type has a count of zero; nodes A, A, B give {A: 2, B: 1}), and the listing
\* is in non-increasing count order: a type with a strictly larger count is
\* listed before a type with a smaller count.
C9_TallyAndOrder ==
    (ipc = "done" /\ iResult = "tally") =>
        /\ DOMAIN op_types = {iGraph[i] : i \in 1..Len(iGraph)}
        /\ \A op \in DOMAIN op_types :
              op_types[op] = NodeCount(op, iGraph) /\ op_types[op] > 0
        /\ SumCounts(op_types, DOMAIN op_types) = Len(iGraph)
        /\ {iListing[i] : i \in 1..Len(iListing)} = DOMAIN op_types
        /\ Len(iListing) = Cardinality(DOMAIN op_types)
        /\ \A i, j \in 1..Len(iListing) :
              i < j => op_types[iListing[i]] >= op_types[iListing[j]]
        /\ \A a, b \in DOMAIN op_types :
              op_types[a] > op_types[b] => Position(iListing,
              a) < Position(iListing, b)
        /\ (Len(iGraph) = 3 /\ NodeCount("Conv2D", iGraph) = 2
               /\ NodeCount("Resample", iGraph) = 1) =>
              /\ op_types["Conv2D"] = 2 /\ op_types["Resample"] = 1
              /\ iListing = <<"Conv2D", "Resample">>

C9_Witness ==
    /\ ipc = "done" /\ iResult = "tally"
    /\ iGraph = <<"Resample", "Conv2D", "Conv2D">>
    /\ iListing = <<"Conv2D", "Resample">>

(***************************************************************************)
(* The claim about simplify_model's shape check, under SpecSimplify.       *)
(***************************************************************************)

\* C10, as amended: an input tensor is flagged as having a dynamic shape if
\* and only if at least one of its declared dimensions has a dim_value that is
\* not positive: -1, any other value below 1 (0 and -2 included), or unset
\* (which reads as 0); a tensor whose declared dimensions are all positive is
\* never flagged.
C10_DynamicIffNonPositive ==
    (mpc = "shapes" /\ mIndex > 0) =>
        /\ mFlagged <=>
              \E i \in 1..Len(mTensor) : ~mTensor[i].set \/ mTensor[i].value <= 0
        /\ (\A i \in 1..Len(mTensor) : mTensor[i].set /\ mTensor[i].value > 0)
              => ~mFlagged

C10_Witness ==
    /\ mpc = "shapes" /\ mIndex > 0 /\ mFlagged
    /\ mTensor = <<[set |-> TRUE, value |-> 1], [set |-> FALSE, value |-> 0]>>

\* C10 as stated: flagged if and only if some declared dimension is -1 or unset.
C10_Original ==
    (mpc = "shapes" /\ mIndex > 0) =>
        (mFlagged <=>
            \E i \in 1..Len(mTensor) : ~mTensor[i].set \/ mTensor[i].value = -1)

(***************************************************************************)
(* The claim about what simplify_model saves, under FairSimplify.          *)
(***************************************************************************)

\* The model onnx.save is due to write: the simplifier's result when the
\* simplifier ran and its check passed, the loaded model otherwise.
SavedExpected == IF mSimp = "ok" THEN "simplified" ELSE "loaded"

\* The try block around the simplifier was left normally or through one of
\* its two handlers (mSimp is set on each of these ways out, and on no other).
SimplifierBlockLeft == mSimp # "none"

\* onnx.save itself raised: the function was left by an exception after the
\* simplifier block had been left.
SaveRaised == mExit = "raised" /\ SimplifierBlockLeft

\* C11, as amended: once the model has loaded and the simplifier block has been
\* left (simplifier unavailable, simplifier raising an Exception, check failed
\* or check passed), onnx.save is always reached, whatever the diagnostics
\* found, and unless onnx.save itself raises the function returns with the
\* output holding the simplifier's result exactly when the check passed and
\* the unmodified loaded model otherwise.  The diagnostics never end the
\* function and never change the model to be saved.  Nothing is saved when
\* the function is left by an exception.
C11_SavedWhateverDiagnostics ==
    /\ [](mExit = "returned" => mSaved = SavedExpected)
    /\ [](mExit = "raised" => mSaved = "none")
    /\ [](mpc \in {"analyze", "shapes"} => mExit = "running")
    /\ [][(mpc \in {"analyze", "shapes"}) =>
             (mModel' = mModel /\ mSimp' = mSimp)]_vars
    /\ SimplifierBlockLeft ~>
          (mpc = "done" /\ (SaveRaised \/ mSaved = SavedExpected))

\* The simplifier raised, a denylisted operator was found and a dynamic shape
\* was reported, and the loaded model was saved all the same.
C11_Witness ==
    /\ mExit = "returned" /\ mSaved = "loaded"
    /\ mSimp = "raised"
    /\ found_problems # {}
    /\ mFlagged

\* C11 as stated: once the input model has loaded, a model is always saved.
C11_Original == [](mModel # "none" => <>(mSaved # "none"))

(***************************************************************************)
(* The claim about inspect_saved_model's failures, under SpecInspect.      *)
(***************************************************************************)

\* C12: inspect_saved_model never raises an Exception to its caller (only a
\* BaseException that is not an Exception can leave it) and never writes to
\* the artifact; when loading the artifact, parsing it or reading its
\* serving_default signature raises an Exception it returns None, and None is
\* returned in that case only; when nothing raises it returns the operator
\* tally, whether or not an operator was flagged as risky.
C12_InspectNeverRaises ==
    /\ [](iExit = "raised" => iRaised = "base")
    /\ [](iRaised = "exc" =>
             (ipc = "done" /\ iExit = "returned" /\ iResult = "None"))
    /\ [](iResult = "None" => iRaised = "exc")
    /\ []((ipc = "done" /\ iRaised = "none") =>
             /\ iExit = "returned" /\ iResult = "tally"
             /\ DOMAIN op_types = {iGraph[i] : i \in 1..Len(iGraph)})
    /\ [][iDisk' = iDisk]_vars

\* Loading an artifact with nodes raised an Exception; None was returned.
C12_Witness ==
    /\ ipc = "done" /\ iRaised = "exc"
    /\ iExit = "returned" /\ iResult = "None"
    /\ Len(iDisk) > 1

(***************************************************************************)
(* The claim about the temporary directory of onnx_to_tflite_simple.py,    *)
(* under SpecSimple.                                                       *)
(***************************************************************************)

\* C13: in onnx_to_tflite_simple.py main(), the directory made by mkdtemp
\* exists while the pipeline runs and no longer exists once main() has
\* finished, on every exit path: return 0, the return 2 of an onnx2tf import
\* failure, of a conversion failure and of a missing saved_model
\* subdirectory, and an exception main() does not catch; on the usage-error
\* and input-not-found paths (return 1) no temporary directory is created.
C13_SimpleTempDirRemoved ==
    /\ spc = "done" => ~sTmpExists
    /\ (spc \in {"import", "convert", "subdir", "tflite", "finally"}) =>
          (sTmpCreated /\ sTmpExists)
    /\ (spc = "done" /\ (sArgc < 3 \/ ~sIsFile)) =>
          (~sTmpCreated /\ sExit = "returned" /\ sRet = 1)
    /\ (spc = "done" /\ sArgc >= 3 /\ sIsFile) =>
          /\ sTmpCreated
          /\ sExit = "raised" \/ (sExit = "returned" /\ sRet \in {0, 2})

\* The SavedModel -> TFLite step raised, main() did not catch it, and the
\* directory mkdtemp had made is gone.
C13_Witness ==
    /\ spc = "done" /\ sExit = "raised"
    /\ sStage = "tflite" /\ sRaised = "exc"
    /\ sTmpCreated /\ ~sTmpExists

(***************************************************************************)
(* The claim about the re-rooting step of backend A, under SpecConv.       *)
(***************************************************************************)

\* The entries of a directory that are neither a directory nor a regular file.
SpecialEntries(dir) == {n \in Names : dir[n] = "other"}

\* C14, as amended: when backend A completes and has left a saved_model
\* subdirectory inside out_dir, and the re-rooting step completes, out_dir
\* holds the entries that were inside that subdirectory and, besides them,
\* only the entries that are neither a directory nor a regular file, which
\* the cleaning loop leaves in place; every other directory and regular file
\* of out_dir is removed, those present before the call included, and neither
\* saved_model nor __tmp_saved_model__ remains.  The step completes unless
\* __tmp_saved_model__ already exists in out_dir as something the rename
\* cannot replace; then the rename raises and out_dir is left as backend A
\* left it.  When A completes without leaving a saved_model subdirectory,
\* out_dir is left unchanged by this step.
C14_RerootKeepsSavedModelOnly ==
    [][(cpc = "reroot") =>
         IF out_dir["saved_model"] = "dir"
         THEN IF cpc' = "tflite"
              THEN /\ Entries(out_dir') =
                         sub["saved_model"] \cup SpecialEntries(out_dir)
                   /\ \A n \in Names \ sub["saved_model"] :
                         out_dir[n] \in {"file", "dir"} => out_dir'[n] = "none"
                   /\ out_dir'["saved_model"] = "none"
                   /\ out_dir'["__tmp_saved_model__"] = "none"
                   /\ \/ out_dir["__tmp_saved_model__"] = "none"
                      \/ /\ out_dir["__tmp_saved_model__"] = "dir"
                         /\ sub["__tmp_saved_model__"] = {}
              ELSE /\ out_dir' = out_dir
                   /\ aRaised' = "exc"
                   /\ out_dir["__tmp_saved_model__"] # "none"
         ELSE out_dir' = out_dir /\ cpc' = "tflite"]_vars

\* Backend A returned after re-rooting into a --saved-model-dir that held an
\* entry that is neither a directory nor a file: the SavedModel's entries are
\* in out_dir, the side output is gone, that entry is still there.
C14_Witness ==
    /\ aDone /\ smArg /\ root = "dir"
    /\ out_dir["saved_model.pb"] = "file" /\ out_dir["variables"] = "dir"
    /\ out_dir["saved_model"] = "none" /\ out_dir["__tmp_saved_model__"] = "none"
    /\ out_dir["side"] = "none"
    /\ out_dir["user"] = "other"

\* C14 as stated: when the re-rooting step ends, out_dir contains exactly the
\* entries that were inside the saved_model subdirectory.
C14_Original ==
    [][(cpc = "reroot" /\ out_dir["saved_model"] = "dir" /\ cpc' = "tflite") =>
         Entries(out_dir') = sub["saved_model"]]_vars

=============================================================================
